---- MODULE Spec2Model ----
(***************************************************************************)
(* Model of rename_histology.py: key extraction, donor resolution, the     *)
(* checks of the main program, the anatomy classifier and the allocation   *)
(* of unique destination numbers.                                          *)
(*                                                                         *)
(* A Python str is a sequence of one-character strings.                    *)
(***************************************************************************)
EXTENDS Integers, Sequences, FiniteSets, TLC

VARIABLES
    input_filename,  \* get_filename_key: the raw string passed in
    filename_key,    \* get_filename_key: outcome of the last call
    value,           \* get_anatomy: the text passed in
    n_parts,         \* number of pieces the text was built from
    anatomy_result,  \* get_anatomy: outcome of the last call
    short_anatomy,   \* get_short_anatomy: outcome for the label returned
    img_files,       \* the image files of the source directory, as listed
    sheet_rows,      \* the filename_stem cells of the sheet, row 2 onwards
    pc,              \* where the main program is
    idx,             \* position of the running loop
    donor_id,        \* donor of the image files
    excel_donor_id,  \* donor of the sheet
    fn_map,          \* filename key -> image filename
    rows,            \* row key -> row
    exit_code,       \* status the process ended with
    error,           \* the error message printed before sys.exit(1)
    printed,         \* keys printed by the main program
    unique_dict,     \* the module's unique_dict: donor -> anatomy -> stain -> number
    clean_histology, \* the matched rows of the batch, in the order of the sheet
    named,           \* the rows of the batch with their destination names
    history,         \* every row the process has named, with its batch
    batch_no,        \* batches the process has taken in
    alloc_pc         \* "name" while a batch waits for its names

keyVars == <<input_filename, filename_key>>

anatVars == <<value, n_parts, anatomy_result, short_anatomy>>

mainVars == <<img_files, sheet_rows, pc, idx, donor_id, excel_donor_id, fn_map,
              rows, exit_code, error, printed>>

allocVars == <<unique_dict, clean_histology, named, history, batch_no, alloc_pc>>

vars == <<keyVars, anatVars, mainVars, allocVars>>

----------------------------------------------------------------------------
(* Characters and str helpers *)

\* the characters of a string literal
str(s) == [i \in 1..Len(s) |-> SubSeq(s, i, i)]

Lower == {"a", "b", "c", "d", "e", "f", "g", "h", "i", "j", "k", "l", "m",
          "n", "o", "p", "q", "r", "s", "t", "u", "v", "w", "x", "y", "z"}

Upper == {"A", "B", "C", "D", "E", "F", "G", "H", "I", "J", "K", "L", "M",
          "N", "O", "P", "Q", "R", "S", "T", "U", "V", "W", "X", "Y", "Z"}

Digit == {"0", "1", "2", "3", "4", "5", "6", "7", "8", "9"}

\* str.isalpha() / str.isdigit() of one character
isalpha(c) == c \in Lower \cup Upper

isdigit(c) == c \in Digit

\* s.replace(old, new): occurrences replaced from the left, not overlapping
RECURSIVE replace(_, _, _)
replace(s, old, new) ==
    IF Len(s) < Len(old) THEN s
    ELSE IF SubSeq(s, 1, Len(old)) = old
         THEN new \o replace(SubSeq(s, Len(old) + 1, Len(s)), old, new)
         ELSE <<Head(s)>> \o replace(Tail(s), old, new)

\* s.startswith(p)
startswith(s, p) == Len(s) >= Len(p) /\ SubSeq(s, 1, Len(p)) = p

\* positions at which pat occurs in s
Occurs(pat, s, from) ==
    {i \in from..(Len(s) - Len(pat) + 1) : SubSeq(s, i, i + Len(pat) - 1) = pat}

\* s.find(pat) from position `from` (1-based); 0 when absent
RECURSIVE Find(_, _, _)
Find(pat, s, from) ==
    IF from + Len(pat) - 1 > Len(s) THEN 0
    ELSE IF SubSeq(s, from, from + Len(pat) - 1) = pat THEN from
    ELSE Find(pat, s, from + 1)

\* the last position of character c in s; 0 when absent
RFind(c, s) ==
    IF \A i \in 1..Len(s) : s[i] # c THEN 0
    ELSE CHOOSE i \in 1..Len(s) : s[i] = c /\ \A j \in (i+1)..Len(s) : s[j] # c

----------------------------------------------------------------------------
(* get_filename_key *)

HPAP == str("HPAP")

\* input_filename.rsplit('.', 1)[0]
rsplit_ext(s) == IF RFind(".", s) = 0 THEN s ELSE SubSeq(s, 1, RFind(".", s) - 1)

\* the test of line 79, dropping blanks only
KeepChar_NoBlank(c) == c # " "

\* the test of line 79
KeepChar(c) == c = "_" \/ c = "-" \/ isalpha(c) \/ isdigit(c)

\* the loop of lines 77-80
RECURSIVE FilterKey(_)
FilterKey(s) ==
    IF s = <<>> THEN <<>>
    ELSE (IF KeepChar(Head(s)) THEN <<Head(s)>> ELSE <<>>) \o FilterKey(Tail(s))

\* outcome of a call: the returned key, or sys.exit(1)
Exit1 == [status |-> "exit1", key |-> <<>>]

Ok(k) == [status |-> "ok", key |-> k]

get_filename_key(s, rm_extension) ==
    LET stem == IF rm_extension THEN rsplit_ext(s) ELSE s
        key == FilterKey(stem)
    IN IF Len(key) = 0 \/ ~startswith(key, HPAP) THEN Exit1 ELSE Ok(key)

----------------------------------------------------------------------------
(* get_donor_id *)

\* input_str.split('_', 1)[0]
before_underscore(s) ==
    IF Find(str("_"), s, 1) = 0 THEN s ELSE SubSeq(s, 1, Find(str("_"), s, 1) - 1)

\* hpap_str.split('HPAP')[1]: the text between the first 'HPAP' and the next
\* one; the list has no element 1 when 'HPAP' does not occur (IndexError)
IndexError == <<"IndexError">>

after_hpap(s) ==
    LET p == Find(HPAP, s, 1)
        rest == SubSeq(s, p + Len(HPAP), Len(s))
    IN IF p = 0 THEN IndexError
       ELSE IF Find(HPAP, rest, 1) = 0 THEN rest
       ELSE SubSeq(rest, 1, Find(HPAP, rest, 1) - 1)

\* n zeros
RECURSIVE zeros(_)
zeros(n) == IF n <= 0 THEN <<>> ELSE <<"0">> \o zeros(n - 1)

\* s.zfill(width): zeros go after a leading sign
zfill(s, width) ==
    IF Len(s) >= width THEN s
    ELSE IF Len(s) > 0 /\ s[1] \in {"+", "-"}
         THEN <<s[1]>> \o zeros(width - Len(s)) \o Tail(s)
         ELSE zeros(width - Len(s)) \o s

get_donor_id(input_str) ==
    LET hpap_str == before_underscore(input_str)
        num_part == after_hpap(hpap_str)
    IN IF num_part = IndexError THEN IndexError ELSE zfill(num_part, 3)

----------------------------------------------------------------------------
(* dict: the items in insertion order, as <<key, value>> pairs *)

dict_keys(d) == {d[i][1] : i \in DOMAIN d}

dict_get(d, k) == d[CHOOSE i \in DOMAIN d : d[i][1] = k][2]

\* d[k] = v
dict_set(d, k, v) ==
    IF k \in dict_keys(d)
    THEN [i \in DOMAIN d |-> IF d[i][1] = k THEN <<k, v>> ELSE d[i]]
    ELSE Append(d, <<k, v>>)

\* [x for x in a if x not in b], over the keys
RECURSIVE keys_not_in(_, _)
keys_not_in(a, b) ==
    IF a = <<>> THEN <<>>
    ELSE (IF Head(a)[1] \in dict_keys(b) THEN <<>> ELSE <<Head(a)[1]>>)
         \o keys_not_in(Tail(a), b)

----------------------------------------------------------------------------
(* anatomy_dict and get_anatomy *)

\* a dict entry is a nested dict or a str
Dict(items) == [kind |-> "dict", items |-> items, val |-> <<>>]

StrVal(s) == [kind |-> "str", items |-> <<>>, val |-> s]

anatomy_dict ==
    (str("pancreas") :> Dict(
        (str("unsure") :> str("Pancreas - Unsure of orientation")) @@
        (str("head") :> str("Head of pancreas")) @@
        (str("tail") :> str("Tail of pancreas")) @@
        (str("body") :> str("Body of pancreas")))) @@
    (str("duodenum") :> Dict(
        (str("unsure") :> str("Duodenum - Unsure of orientation")) @@
        (str("distal") :> str("Duodenum - Distal one third")) @@
        (str("mid") :> str("Duodenum - Mid one third")) @@
        (str("proximal") :> str("Duodenum - Proximal one third")) @@
        (str("prox") :> str("Duodenum - Proximal one third")))) @@
    (str("LN") :> Dict(
        (str("SMA") :> str("Lymph node - SMA")) @@
        (str("sma") :> str("Lymph node - SMA")) @@
        (str("body") :> str("Lymph node - Body of pancreas")) @@
        (str("head") :> str("Lymph node - Head of pancreas")) @@
        (str("mesentery") :> str("Lymph node - Mesentery")) @@
        (str("mesentary") :> str("Lymph node - Mesentery")) @@
        (str("mestentery") :> str("Lymph node - Mesentery")) @@
        (str("tail") :> str("Lymph node - Tail of pancreas")))) @@
    (str("spleen") :> StrVal(str("Spleen"))) @@
    (str("thymus") :> StrVal(str("Thymus"))) @@
    (str("artery") :> StrVal(str("Artery")))

\* lines 325 and 555: the long form as it goes into the file name
long_anatomy(a) == replace(replace(a, str(" "), str("-")), str("---"), str("-"))

\* regular-expression classes \w and \s
isword(c) == c \in Lower \cup Upper \cup Digit \cup {"_"}

isspace(c) == c \in {" ", "\t", "\n"}

\* \s? and -? at position p: the position after the optional character
OptSpace(s, p) == IF p <= Len(s) /\ isspace(s[p]) THEN p + 1 ELSE p

OptDash(s, p) == IF p <= Len(s) /\ s[p] = "-" THEN p + 1 ELSE p

\* \s?-?\s?
OptSep(s, p) == OptSpace(s, OptDash(s, OptSpace(s, p)))

\* the position after the longest run of \w from p
RECURSIVE WordEnd(_, _)
WordEnd(s, p) == IF p <= Len(s) /\ isword(s[p]) THEN WordEnd(s, p + 1) ELSE p

\* (\w+)? at p: the longest word, '' when there is none
Word(s, p) == SubSeq(s, p, WordEnd(s, p) - 1)

\* the first element of a findall result, in a list; the empty list when
\* nothing matches.  A pattern with several groups gives a tuple of groups.
Tuple(groups) == [tuple |-> TRUE, groups |-> groups]

Single(g) == [tuple |-> FALSE, groups |-> <<g>>]

\* re.findall("(pancreas)\\s?-?\\s?(\\w+)", value)
findall_pan(v) ==
    LET kw == str("pancreas")
        hits == {p \in Occurs(kw, v, 1) : Word(v, OptSep(v, p + Len(kw))) # <<>>}
        first == CHOOSE p \in hits : \A q \in hits : p <= q
    IN IF hits = {} THEN <<>>
       ELSE <<Tuple(<<kw, Word(v, OptSep(v, first + Len(kw)))>>)>>

\* re.findall of a pattern that is one literal group: (spleen), (thymus)\s?\n?,
\* (artery)\s?\n?, (Mesentery opo)
findall_literal(kw, v) == IF Find(kw, v, 1) = 0 THEN <<>> ELSE <<Single(kw)>>

\* re.findall("(LN)\\s?-?\\s?(\\w+)?", value)
findall_lyn(v) ==
    LET kw == str("LN")
        p == Find(kw, v, 1)
    IN IF p = 0 THEN <<>> ELSE <<Tuple(<<kw, Word(v, OptSep(v, p + Len(kw)))>>)>>

\* re.findall("(duodenum)\\s?-?\\s?(\\w+)?|(duod)\\s?(\\w+)?", value)
findall_duo(v) ==
    LET long == str("duodenum")
        short == str("duod")
        p == Find(short, v, 1)
    IN IF p = 0 THEN <<>>
       ELSE IF p \in Occurs(long, v, 1)
            THEN <<Tuple(<<long, Word(v, OptSep(v, p + Len(long))), <<>>, <<>>>>)>>
            ELSE <<Tuple(<<<<>>, <<>>, short, Word(v, OptSpace(v, p + Len(short)))>>)>>

\* lines 361-363: the first match of every pattern that matched
RECURSIVE NonEmptyFirst(_)
NonEmptyFirst(xs) ==
    IF xs = <<>> THEN <<>>
    ELSE (IF Len(Head(xs)) > 0 THEN <<Head(xs)[1]>> ELSE <<>>) \o NonEmptyFirst(Tail(xs))

\* lines 369-373: the non-empty groups of a tuple, 'duod' renamed
RECURSIVE SubFinds(_)
SubFinds(groups) ==
    IF groups = <<>> THEN <<>>
    ELSE (IF Len(Head(groups)) > 0
          THEN <<IF Head(groups) = str("duod") THEN str("duodenum") ELSE Head(groups)>>
          ELSE <<>>) \o SubFinds(Tail(groups))

\* lines 366-375
RECURSIVE FindsFinal(_)
FindsFinal(finds) ==
    IF finds = <<>> THEN <<>>
    ELSE (IF Head(finds).tuple THEN SubFinds(Head(finds).groups)
          ELSE Head(finds).groups) \o FindsFinal(Tail(finds))

\* outcome of get_anatomy: a returned label, sys.exit(1), or an exception
\* that nothing catches
Label(s) == [status |-> "ok", value |-> s]

AnatomyExit == [status |-> "exit1", value |-> <<>>]

AnatomyTypeError == [status |-> "TypeError", value |-> <<>>]

get_anatomy(v) ==
    LET finds == NonEmptyFirst(<<findall_pan(v),
                                 findall_literal(str("spleen"), v),
                                 findall_lyn(v),
                                 findall_duo(v),
                                 findall_literal(str("thymus"), v),
                                 findall_literal(str("artery"), v),
                                 findall_literal(str("Mesentery opo"), v)>>)
        finds_final == FindsFinal(finds)
        num_keywords == Len(finds_final)
        key1 == finds_final[1]
        key2 == finds_final[2]
    IN IF num_keywords = 0 \/ num_keywords > 2 THEN AnatomyExit
       ELSE IF key1 \notin DOMAIN anatomy_dict THEN AnatomyExit
       ELSE IF num_keywords = 1 THEN
            IF key1 = str("pancreas") THEN Label(str("Pancreas"))
            ELSE IF key1 = str("duodenum") THEN Label(str("Duodenum"))
            ELSE IF key1 = str("LN") THEN Label(str("Lymph node"))
            ELSE Label(anatomy_dict[key1].val)
       \* anatomy_dict[key1][key2]: indexing a str with a str is a TypeError,
       \* a missing key is the KeyError that line 406 turns into sys.exit(1)
       ELSE IF anatomy_dict[key1].kind = "str" THEN AnatomyTypeError
       ELSE IF key2 \notin DOMAIN anatomy_dict[key1].items THEN AnatomyExit
       ELSE Label(anatomy_dict[key1].items[key2])

\* finds_final of get_anatomy, lines 361-375
finds_final(v) ==
    FindsFinal(NonEmptyFirst(<<findall_pan(v),
                               findall_literal(str("spleen"), v),
                               findall_lyn(v),
                               findall_duo(v),
                               findall_literal(str("thymus"), v),
                               findall_literal(str("artery"), v),
                               findall_literal(str("Mesentery opo"), v)>>))

\* line 384: the site keyword that selects the entry of anatomy_dict
key1(v) == finds_final(v)[1]

----------------------------------------------------------------------------
(* get_short_anatomy *)

LowerLetters == str("abcdefghijklmnopqrstuvwxyz")

UpperLetters == str("ABCDEFGHIJKLMNOPQRSTUVWXYZ")

\* str.lower
lower(s) ==
    [i \in 1..Len(s) |->
        IF s[i] \in Upper
        THEN LowerLetters[CHOOSE k \in 1..26 : UpperLetters[k] = s[i]]
        ELSE s[i]]

\* 'x in s' for str
contains(s, x) == Find(x, s, 1) # 0

\* get_short_anatomy with the pancreas test ahead of the lymph node test
get_short_anatomy_pancreas_first(input_str) ==
    LET anatomy_lower == lower(input_str)
    IN IF contains(anatomy_lower, str("artery")) THEN Label(str("Artery"))
       ELSE IF contains(anatomy_lower, str("bone marrow")) THEN Label(str("Bone Marrow"))
       ELSE IF contains(anatomy_lower, str("duodenum")) THEN Label(str("Duodenum"))
       ELSE IF contains(anatomy_lower, str("pancreas")) THEN Label(str("Pancreas"))
       ELSE IF contains(anatomy_lower, str("lymph node")) THEN Label(str("Lymph node"))
       ELSE IF contains(anatomy_lower, str("spleen")) THEN Label(str("Spleen"))
       ELSE IF contains(anatomy_lower, str("thymus")) THEN Label(str("Thymus"))
       ELSE AnatomyExit

get_short_anatomy(input_str) ==
    LET anatomy_lower == lower(input_str)
    IN IF contains(anatomy_lower, str("artery")) THEN Label(str("Artery"))
       ELSE IF contains(anatomy_lower, str("bone marrow")) THEN Label(str("Bone Marrow"))
       ELSE IF contains(anatomy_lower, str("duodenum")) THEN Label(str("Duodenum"))
       ELSE IF contains(anatomy_lower, str("lymph node")) THEN Label(str("Lymph node"))
       ELSE IF contains(anatomy_lower, str("pancreas")) THEN Label(str("Pancreas"))
       ELSE IF contains(anatomy_lower, str("spleen")) THEN Label(str("Spleen"))
       ELSE IF contains(anatomy_lower, str("thymus")) THEN Label(str("Thymus"))
       \* lines 470-471: sys.exit(1)
       ELSE AnatomyExit

----------------------------------------------------------------------------
(* unique_dict, get_unique_num and the naming statements of map_src_to_dest *)

IMG_FILE_EXTENSION == str(".ndpi")

\* s.split(sep) for a separator of one character
RECURSIVE split(_, _)
split(s, sep) ==
    LET p == Find(sep, s, 1)
    IN IF p = 0 THEN <<s>>
       ELSE <<SubSeq(s, 1, p - 1)>> \o split(SubSeq(s, p + 1, Len(s)), sep)

\* str(n) for n >= 0
RECURSIVE str_int(_)
str_int(n) ==
    LET digit == SubSeq(str("0123456789"), (n % 10) + 1, (n % 10) + 1)
    IN IF n < 10 THEN digit ELSE str_int(n \div 10) \o digit

\* the characters in code point order, for the comparison of str
CodePoints ==
    str(" +,-.0123456789ABCDEFGHIJKLMNOPQRSTUVWXYZ_abcdefghijklmnopqrstuvwxyz")

ord(c) == CHOOSE i \in DOMAIN CodePoints : CodePoints[i] = c

\* a < b for str
RECURSIVE str_less(_, _)
str_less(a, b) ==
    IF b = <<>> THEN FALSE
    ELSE IF a = <<>> THEN TRUE
    ELSE IF Head(a) # Head(b) THEN ord(Head(a)) < ord(Head(b))
    ELSE str_less(Tail(a), Tail(b))

\* get_unique_num with the increment of line 492 left out
get_unique_num_stuck(ud, input_str) ==
    LET tokens == split(input_str, str("_"))
        donor == tokens[1]
        anatomy == tokens[3]
        stain == tokens[4]
        d1 == IF donor \notin dict_keys(ud) THEN dict_set(ud, donor, <<>>) ELSE ud
        by_anatomy == dict_get(d1, donor)
        a1 == IF anatomy \notin dict_keys(by_anatomy)
              THEN dict_set(by_anatomy, anatomy, <<>>) ELSE by_anatomy
        by_stain == dict_get(a1, anatomy)
        num == IF stain \notin dict_keys(by_stain) THEN 1
               ELSE dict_get(by_stain, stain)
    IN [unique_dict |-> dict_set(d1, donor, dict_set(a1, anatomy, dict_set(by_stain, stain, num))),
        unique_num |-> num]

\* get_unique_num(input_str) on the module's unique_dict: the dict after
\* the call and the number returned
get_unique_num(ud, input_str) ==
    LET tokens == split(input_str, str("_"))
        donor == tokens[1]
        anatomy == tokens[3]
        stain == tokens[4]
        d1 == IF donor \notin dict_keys(ud) THEN dict_set(ud, donor, <<>>) ELSE ud
        by_anatomy == dict_get(d1, donor)
        a1 == IF anatomy \notin dict_keys(by_anatomy)
              THEN dict_set(by_anatomy, anatomy, <<>>) ELSE by_anatomy
        by_stain == dict_get(a1, anatomy)
        num == IF stain \notin dict_keys(by_stain) THEN 1
               ELSE dict_get(by_stain, stain) + 1
    IN [unique_dict |-> dict_set(d1, donor, dict_set(a1, anatomy, dict_set(by_stain, stain, num))),
        unique_num |-> num]

\* lines 553-557: the destination name before its number
dest_key(row) ==
    row.donor \o str("_Histology_") \o long_anatomy(row.anatomy)
    \o str("_") \o row.renamed_stain \o str("_H-and-E")

\* the order of sort_values(['anatomy', 'renamed_stain', 'img_id'])
row_less(a, b) ==
    \/ str_less(a.anatomy, b.anatomy)
    \/ /\ a.anatomy = b.anatomy
       /\ \/ str_less(a.renamed_stain, b.renamed_stain)
          \/ /\ a.renamed_stain = b.renamed_stain
             /\ str_less(a.img_id, b.img_id)

\* the sorted table with row put in; it goes behind the rows that are not
\* greater
RECURSIVE insert_row(_, _)
insert_row(sorted, row) ==
    IF sorted = <<>> THEN <<row>>
    ELSE IF row_less(row, Head(sorted)) THEN <<row>> \o sorted
    ELSE <<Head(sorted)>> \o insert_row(Tail(sorted), row)

\* line 559: sort_values on several columns keeps rows with equal columns in
\* the order they had
RECURSIVE sort_values(_)
sort_values(table) ==
    IF table = <<>> THEN <<>>
    ELSE insert_row(sort_values(SubSeq(table, 1, Len(table) - 1)), table[Len(table)])

\* lines 563-570: get_unique_num applied to the rows in their order, and the
\* number and the extension put behind the name
RECURSIVE apply_unique_num(_, _)
apply_unique_num(ud, table) ==
    IF table = <<>> THEN [unique_dict |-> ud, table |-> <<>>]
    ELSE LET r == get_unique_num(ud, dest_key(Head(table)))
             rest == apply_unique_num(r.unique_dict, Tail(table))
             named_row == [filepath |-> Head(table).filepath,
                       donor |-> Head(table).donor,
                       anatomy |-> Head(table).anatomy,
                       renamed_stain |-> Head(table).renamed_stain,
                       img_id |-> Head(table).img_id,
                       unique_num |-> r.unique_num,
                       dest_name |-> dest_key(Head(table)) \o str("_")
                                     \o str_int(r.unique_num) \o IMG_FILE_EXTENSION]
         IN [unique_dict |-> rest.unique_dict, table |-> <<named_row>> \o rest.table]

----------------------------------------------------------------------------
(* The main program: check_src, check_img_filenames, read_excel,           *)
(* check_excel_filenames and the comparison of the two key sets.           *)
(* The sheet is its filename_stem column: one cell per data row.           *)

NoCall == [status |-> "none", key |-> <<>>]

NoAnatomy == [status |-> "none", value |-> <<>>]

KeyIdle ==
    /\ input_filename = <<>>
    /\ filename_key = NoCall

AnatIdle ==
    /\ value = <<>>
    /\ n_parts = 0
    /\ anatomy_result = NoAnatomy
    /\ short_anatomy = NoAnatomy

MaxImgFiles == 2

MaxSheetRows == 2

ImgNames ==
    {str("HPAP1_a.ndpi"), str("HPAP1 _a.ndpi"), str("HPAP01_b.ndpi"),
     str("HPAP2_b.ndpi"), str("x1_a.ndpi")}

SheetCells ==
    {str("HPAP1_a"), str("HPAP 1_a"), str("HPAP01_b"), str("H PAP1_c"),
     str("HPAP2_b"), str("slide b")}

\* the lists of length at most n over S
SeqsUpTo(S, n) == UNION {[1..k -> S] : k \in 0..n}

\* os.listdir gives every name once
Distinct(s) == \A i, j \in DOMAIN s : i # j => s[i] # s[j]

None == <<"None">>

AllocIdle ==
    /\ unique_dict = <<>>
    /\ clean_histology = <<>>
    /\ named = <<>>
    /\ history = <<>>
    /\ batch_no = 0
    /\ alloc_pc = "idle"

MainIdle ==
    /\ img_files = <<>>
    /\ sheet_rows = <<>>
    /\ pc = "idle"
    /\ idx = 0
    /\ donor_id = None
    /\ excel_donor_id = None
    /\ fn_map = <<>>
    /\ rows = <<>>
    /\ exit_code = None
    /\ error = ""
    /\ printed = <<>>

Init ==
    /\ img_files \in {s \in SeqsUpTo(ImgNames, MaxImgFiles) : Distinct(s)}
    /\ sheet_rows \in SeqsUpTo(SheetCells, MaxSheetRows)
    /\ pc = "check_src"
    /\ idx = 0
    /\ donor_id = None
    /\ excel_donor_id = None
    /\ fn_map = <<>>
    /\ rows = <<>>
    /\ exit_code = None
    /\ error = ""
    /\ printed = <<>>
    /\ KeyIdle
    /\ AnatIdle
    /\ AllocIdle

\* sys.exit(code) after printing message
sys_exit(code, message) ==
    /\ pc' = "done"
    /\ exit_code' = code
    /\ error' = message
    /\ UNCHANGED <<img_files, sheet_rows, idx, donor_id, excel_donor_id, fn_map,
                   rows, printed>>

\* check_src, lines 155-161: there must be an image file
check_src ==
    /\ pc = "check_src"
    /\ IF Len(img_files) = 0
       THEN sys_exit(<<1>>, "ERROR: no image file found")
       ELSE /\ pc' = "check_img_filenames"
            /\ idx' = 1
            /\ UNCHANGED <<img_files, sheet_rows, donor_id, excel_donor_id, fn_map,
                           rows, exit_code, error, printed>>
    /\ UNCHANGED <<keyVars, anatVars, allocVars>>

\* check_img_filenames without the test of line 122: a second file with the
\* same key replaces the first one in fn_map
check_img_filenames_overwrite ==
    /\ pc = "check_img_filenames"
    /\ LET fn == img_files[idx]
           fn_key == get_filename_key(fn, TRUE)
           current_donor_id == get_donor_id(fn_key.key)
       IN IF fn_key.status = "exit1"
          THEN sys_exit(<<1>>, "ERROR: invalid filename")
          ELSE IF donor_id # None /\ donor_id # current_donor_id
          THEN sys_exit(<<1>>, "ERROR: inconsistent donor ID in image")
          ELSE /\ donor_id' = current_donor_id
               /\ fn_map' = dict_set(fn_map, fn_key.key, fn)
               /\ IF idx < Len(img_files)
                  THEN idx' = idx + 1 /\ pc' = pc
                  ELSE idx' = 0 /\ pc' = "read_excel"
               /\ UNCHANGED <<img_files, sheet_rows, excel_donor_id, rows,
                              exit_code, error, printed>>
    /\ UNCHANGED <<keyVars, anatVars, allocVars>>

\* check_img_filenames, lines 113-126: one turn of the loop; after the last
\* file the function returns and read_excel starts
check_img_filenames ==
    /\ pc = "check_img_filenames"
    /\ LET fn == img_files[idx]
           fn_key == get_filename_key(fn, TRUE)
           current_donor_id == get_donor_id(fn_key.key)
       IN IF fn_key.status = "exit1"
          THEN sys_exit(<<1>>, "ERROR: invalid filename")
          ELSE IF donor_id # None /\ donor_id # current_donor_id
          THEN sys_exit(<<1>>, "ERROR: inconsistent donor ID in image")
          ELSE IF fn_key.key \in dict_keys(fn_map)
          THEN sys_exit(<<1>>, "ERROR: duplicate filename key")
          ELSE /\ donor_id' = current_donor_id
               /\ fn_map' = dict_set(fn_map, fn_key.key, fn)
               /\ IF idx < Len(img_files)
                  THEN idx' = idx + 1 /\ pc' = pc
                  ELSE idx' = 0 /\ pc' = "read_excel"
               /\ UNCHANGED <<img_files, sheet_rows, excel_donor_id, rows,
                              exit_code, error, printed>>
    /\ UNCHANGED <<keyVars, anatVars, allocVars>>

\* read_excel, lines 254-266, with map_excel_columns: the column is the
\* filename_stem column when its first data cell contains 'HPAP'
read_excel_columns ==
    /\ pc = "read_excel"
    /\ IF Len(sheet_rows) = 0 \/ Find(HPAP, sheet_rows[1], 1) = 0
       THEN sys_exit(<<1>>, "ERROR: HPAP column not found")
       ELSE /\ pc' = "read_excel_rows"
            /\ idx' = 1
            /\ UNCHANGED <<img_files, sheet_rows, donor_id, excel_donor_id, fn_map,
                           rows, exit_code, error, printed>>
    /\ UNCHANGED <<keyVars, anatVars, allocVars>>

\* read_excel, lines 267-286: one row of the sheet
read_excel_row ==
    /\ pc = "read_excel_rows"
    /\ LET filename_stem == sheet_rows[idx]
           row_key == get_filename_key(filename_stem, FALSE)
       IN IF row_key.status = "exit1"
          THEN sys_exit(<<1>>, "ERROR: invalid filename")
          ELSE IF Len(row_key.key) = 0 \/ ~startswith(row_key.key, HPAP)
          THEN sys_exit(<<1>>, "ERROR: invalid HPAP value")
          ELSE IF row_key.key \in dict_keys(rows)
          THEN sys_exit(<<1>>, "ERROR: duplicate HPAP value")
          ELSE /\ rows' = dict_set(rows, row_key.key, [filename_stem |-> filename_stem])
               /\ IF idx < Len(sheet_rows)
                  THEN idx' = idx + 1 /\ pc' = pc
                  ELSE idx' = 1 /\ pc' = "check_excel_filenames"
               /\ UNCHANGED <<img_files, sheet_rows, donor_id, excel_donor_id,
                              fn_map, exit_code, error, printed>>
    /\ UNCHANGED <<keyVars, anatVars, allocVars>>

\* check_excel_filenames, lines 194-201: one item of rows
check_excel_filenames ==
    /\ pc = "check_excel_filenames"
    /\ LET r == rows[idx][1]
           current_donor_id == get_donor_id(r)
       IN IF excel_donor_id # None /\ excel_donor_id # current_donor_id
          THEN sys_exit(<<1>>, "ERROR: inconsistent donor ID in Excel")
          ELSE /\ excel_donor_id' = current_donor_id
               /\ IF idx < Len(rows)
                  THEN idx' = idx + 1 /\ pc' = pc
                  ELSE idx' = 0 /\ pc' = "read_excel_return"
               /\ UNCHANGED <<img_files, sheet_rows, donor_id, fn_map, rows,
                              exit_code, error, printed>>
    /\ UNCHANGED <<keyVars, anatVars, allocVars>>

\* read_excel without the test of line 289
read_excel_return_unchecked ==
    /\ pc = "read_excel_return"
    /\ pc' = "main"
    /\ UNCHANGED <<img_files, sheet_rows, idx, donor_id, excel_donor_id,
                   fn_map, rows, exit_code, error, printed>>
    /\ UNCHANGED <<keyVars, anatVars, allocVars>>

\* read_excel, lines 288-296: the donor of the sheet against the donor of
\* the image files
read_excel_return ==
    /\ pc = "read_excel_return"
    /\ IF excel_donor_id # donor_id
       THEN sys_exit(<<1>>, "ERROR: donor ID in Excel does not match")
       ELSE /\ pc' = "main"
            /\ UNCHANGED <<img_files, sheet_rows, idx, donor_id, excel_donor_id,
                           fn_map, rows, exit_code, error, printed>>
    /\ UNCHANGED <<keyVars, anatVars, allocVars>>

\* the main program, lines 617-625: print the keys without a counterpart,
\* then sys.exit(0)
main_compare ==
    /\ pc = "main"
    /\ printed' = keys_not_in(fn_map, rows) \o keys_not_in(rows, fn_map)
    /\ pc' = "done"
    /\ exit_code' = <<0>>
    /\ UNCHANGED <<img_files, sheet_rows, idx, donor_id, excel_donor_id, fn_map,
                   rows, error>>
    /\ UNCHANGED <<keyVars, anatVars, allocVars>>

Next ==
    \/ check_src
    \/ check_img_filenames
    \/ read_excel_columns
    \/ read_excel_row
    \/ check_excel_filenames
    \/ read_excel_return
    \/ main_compare

Spec == Init /\ [][Next]_vars

----------------------------------------------------------------------------
(* Calls of get_filename_key on raw strings *)

MaxRawLen == 6

RawTokens == {HPAP, str("1"), str("a"), str("_"), str("-"), str("."), str(" ")}

KeyInit == KeyIdle /\ AnatIdle /\ MainIdle /\ AllocIdle

\* the caller builds the raw string
KeyAppend ==
    \E t \in RawTokens :
        /\ Len(input_filename) + Len(t) <= MaxRawLen
        /\ input_filename' = input_filename \o t
        /\ filename_key' = NoCall
        /\ UNCHANGED <<anatVars, mainVars, allocVars>>

\* get_filename_key(input_filename, rm_extension)
KeyExtract ==
    \E rm_extension \in BOOLEAN :
        /\ filename_key = NoCall
        /\ filename_key' = get_filename_key(input_filename, rm_extension)
        /\ UNCHANGED <<input_filename, anatVars, mainVars, allocVars>>

KeyNext == KeyAppend \/ KeyExtract

SpecKey == KeyInit /\ [][KeyNext]_vars

----------------------------------------------------------------------------
(* Calls of get_anatomy on free text *)

MaxParts == 3

AnatParts ==
    {str("pancreas"), str("duodenum"), str("duod"), str("LN"), str("ln"),
     str("spleen"), str("thymus"), str("artery"), str("Mesentery opo"),
     str("head"), str("proximal"), str("mesentary"), str("neck"),
     str(" "), str(" - "), str(",")}

AnatInit == KeyIdle /\ AnatIdle /\ MainIdle /\ AllocIdle

\* the caller builds the text
AnatAppend ==
    \E t \in AnatParts :
        /\ n_parts < MaxParts
        /\ value' = value \o t
        /\ n_parts' = n_parts + 1
        /\ anatomy_result' = NoAnatomy
        /\ short_anatomy' = NoAnatomy
        /\ UNCHANGED <<keyVars, mainVars, allocVars>>

\* the sites of anatomy_dict that have a table of modifiers
DictSites == {site \in DOMAIN anatomy_dict : anatomy_dict[site].kind = "dict"}

\* every modifier of every table
Modifiers == UNION {DOMAIN anatomy_dict[site].items : site \in DictSites}

\* the caller's text is a site, a blank and a modifier of anatomy_dict
AnatAppendModifier ==
    \E m \in Modifiers :
        /\ n_parts = 1
        /\ n_parts < MaxParts
        /\ value \in DictSites
        /\ value' = value \o str(" ") \o m
        /\ n_parts' = n_parts + 1
        /\ anatomy_result' = NoAnatomy
        /\ short_anatomy' = NoAnatomy
        /\ UNCHANGED <<keyVars, mainVars, allocVars>>

\* get_anatomy(value)
AnatClassify ==
    /\ anatomy_result = NoAnatomy
    /\ anatomy_result' = get_anatomy(value)
    /\ UNCHANGED <<value, n_parts, short_anatomy, keyVars, mainVars, allocVars>>

\* lines 549-551: get_short_anatomy applied to the label get_anatomy returned
AnatShort ==
    /\ anatomy_result.status = "ok"
    /\ short_anatomy = NoAnatomy
    /\ short_anatomy' = get_short_anatomy(anatomy_result.value)
    /\ UNCHANGED <<value, n_parts, anatomy_result, keyVars, mainVars, allocVars>>

AnatNext == AnatAppend \/ AnatAppendModifier \/ AnatClassify \/ AnatShort

SpecAnatomy == AnatInit /\ [][AnatNext]_vars

----------------------------------------------------------------------------
(* Batches of matched rows named one after the other in one process *)

MaxBatches == 2

MaxBatchRows == 2

Donors == {str("HPAP-001")}

MatchedRows ==
    {[filepath |-> str("a.ndpi"), anatomy |-> str("Head of pancreas"),
      renamed_stain |-> str("FFPE"), img_id |-> str("NA")],
     [filepath |-> str("b.ndpi"), anatomy |-> str("Head of pancreas"),
      renamed_stain |-> str("FFPE"), img_id |-> str("NA")],
     [filepath |-> str("c.ndpi"), anatomy |-> str("Head of pancreas"),
      renamed_stain |-> str("FFPE_B"), img_id |-> str("NA")]}

\* a matched row with the donor column
with_donor(row, donor) ==
    [filepath |-> row.filepath, donor |-> donor, anatomy |-> row.anatomy,
     renamed_stain |-> row.renamed_stain, img_id |-> row.img_id]

AllocInit ==
    /\ AllocIdle
    /\ KeyIdle
    /\ AnatIdle
    /\ MainIdle

\* the matched rows of a batch, in the order of the sheet
matched_rows_arrive ==
    \E donor \in Donors :
        \E table \in {s \in SeqsUpTo(MatchedRows, MaxBatchRows) : Distinct(s) /\ s # <<>>} :
            /\ alloc_pc = "idle"
            /\ batch_no < MaxBatches
            /\ clean_histology' = [i \in DOMAIN table |-> with_donor(table[i], donor)]
            /\ batch_no' = batch_no + 1
            /\ alloc_pc' = "name"
            /\ named' = <<>>
            /\ UNCHANGED <<unique_dict, history, keyVars, anatVars, mainVars>>

\* map_src_to_dest, lines 553-570, on the table of matched rows
allocate_dest_names ==
    /\ alloc_pc = "name"
    /\ LET r == apply_unique_num(unique_dict, sort_values(clean_histology))
       IN /\ unique_dict' = r.unique_dict
          /\ named' = r.table
          /\ history' = history \o [i \in DOMAIN r.table |->
                                       [batch |-> batch_no, row |-> r.table[i]]]
    /\ alloc_pc' = "idle"
    /\ UNCHANGED <<clean_histology, batch_no, keyVars, anatVars, mainVars>>

AllocNext == matched_rows_arrive \/ allocate_dest_names

SpecAlloc == AllocInit /\ [][AllocNext]_vars

----------------------------------------------------------------------------
(* Properties of a batch of image files and spreadsheet rows *)

ImgKey(fn) == get_filename_key(fn, TRUE)

CellKey(cell) == get_filename_key(cell, FALSE)

AllKeysValid ==
    /\ \A i \in DOMAIN img_files : ImgKey(img_files[i]).status = "ok"
    /\ \A i \in DOMAIN sheet_rows : CellKey(sheet_rows[i]).status = "ok"

\* the keys of the batch that resolve
BatchKeys ==
    {ImgKey(img_files[i]).key : i \in {j \in DOMAIN img_files : ImgKey(img_files[j]).status = "ok"}}
    \cup
    {CellKey(sheet_rows[i]).key : i \in {j \in DOMAIN sheet_rows : CellKey(sheet_rows[j]).status = "ok"}}

DonorsDiffer == \E k1, k2 \in BatchKeys : get_donor_id(k1) # get_donor_id(k2)

ImgDonorsDiffer ==
    \E i, j \in DOMAIN img_files :
        /\ ImgKey(img_files[i]).status = "ok"
        /\ ImgKey(img_files[j]).status = "ok"
        /\ get_donor_id(ImgKey(img_files[i]).key) # get_donor_id(ImgKey(img_files[j]).key)

DuplicateImgKey ==
    \E i, j \in DOMAIN img_files :
        /\ i # j
        /\ ImgKey(img_files[i]).status = "ok"
        /\ ImgKey(img_files[i]) = ImgKey(img_files[j])

DuplicateRowKey ==
    \E i, j \in DOMAIN sheet_rows :
        /\ i # j
        /\ CellKey(sheet_rows[i]).status = "ok"
        /\ CellKey(sheet_rows[i]) = CellKey(sheet_rows[j])

ColumnFound == sheet_rows # <<>> /\ Find(HPAP, sheet_rows[1], 1) # 0

DonorErrors ==
    {"ERROR: inconsistent donor ID in image",
     "ERROR: inconsistent donor ID in Excel",
     "ERROR: donor ID in Excel does not match"}

DuplicateErrors == {"ERROR: duplicate filename key", "ERROR: duplicate HPAP value"}

\* the main program got as far as comparing the two key sets
Compared == pc = "done" /\ error = ""

\* C1: when the comparison of rows and files ends in success, every row has
\* the one file with its key and every file the one row with its key; when a
\* row or a file has no counterpart, it ends in a fatal error.
C1_MatchIsBijection ==
    Compared =>
        /\ exit_code = <<0>> =>
              /\ dict_keys(fn_map) = dict_keys(rows)
              /\ Len(fn_map) = Len(img_files)
              /\ Len(rows) = Len(sheet_rows)
        /\ dict_keys(fn_map) # dict_keys(rows) => exit_code # <<0>>

\* C5: when rows and files are not in one-to-one correspondence, the run
\* ends with a non-success status and the report has every file key and
\* every row key that has no counterpart.
C5_UnmatchedAbortsWithFullReport ==
    (Compared /\ dict_keys(fn_map) # dict_keys(rows)) =>
        /\ exit_code = <<1>>
        /\ \A k \in dict_keys(fn_map) \ dict_keys(rows) : \E i \in DOMAIN printed : printed[i] = k
        /\ \A k \in dict_keys(rows) \ dict_keys(fn_map) : \E i \in DOMAIN printed : printed[i] = k

\* C2 as stated: a batch of resolvable keys, two of which have different
\* donors, always ends in a donor-mismatch error.
C2_AlwaysDonorMismatch ==
    (pc = "done" /\ img_files # <<>> /\ AllKeysValid /\ ColumnFound /\ DonorsDiffer) =>
        /\ exit_code = <<1>>
        /\ error \in DonorErrors

\* C2, amended: a batch in which two keys have different donors always ends
\* with exit status 1, in every order of files and rows; the error is a
\* donor-mismatch error when the batch has no other defect (no image file,
\* an invalid key, a duplicate key, no HPAP column).
C2_DonorMismatchAborts ==
    (pc = "done" /\ DonorsDiffer) =>
        /\ exit_code = <<1>>
        /\ (/\ img_files # <<>>
            /\ AllKeysValid
            /\ ~DuplicateImgKey
            /\ ~DuplicateRowKey
            /\ (sheet_rows # <<>> => ColumnFound)) => error \in DonorErrors

\* files of one donor, rows of another: the mismatch is found at the end of
\* read_excel
C2_Witness ==
    /\ pc = "done"
    /\ DonorsDiffer
    /\ Len(fn_map) = Len(img_files)
    /\ Len(rows) = Len(sheet_rows)
    /\ error = "ERROR: donor ID in Excel does not match"

\* C6 as stated: two files with one key, or two rows with one key, always
\* end in a duplicate-key error.
C6_AlwaysDuplicateError ==
    (/\ pc = "done"
     /\ img_files # <<>>
     /\ AllKeysValid
     /\ ColumnFound
     /\ DuplicateImgKey \/ DuplicateRowKey) =>
        /\ exit_code = <<1>>
        /\ error \in DuplicateErrors

\* the checks of the image files before the duplicate test all pass
C6_FileStageClean ==
    /\ img_files # <<>>
    /\ \A i \in DOMAIN img_files : ImgKey(img_files[i]).status = "ok"
    /\ ~ImgDonorsDiffer

\* C6, amended: two files with one key, or two rows with one key, always end
\* the run with exit status 1; the error is the duplicate-key error when no
\* earlier check fails (no image file, an invalid key, image files of two
\* donors, no HPAP column); and a run that gets to the comparison has one
\* entry in fn_map per image file and one entry in rows per row.
C6_DuplicateKeyAborts ==
    pc = "done" =>
        /\ (DuplicateImgKey \/ DuplicateRowKey) => exit_code = <<1>>
        /\ (DuplicateImgKey /\ C6_FileStageClean) =>
              error = "ERROR: duplicate filename key"
        /\ (DuplicateRowKey /\ C6_FileStageClean /\ ~DuplicateImgKey
            /\ ColumnFound /\ AllKeysValid) =>
              error = "ERROR: duplicate HPAP value"
        /\ Compared =>
              /\ Len(fn_map) = Len(img_files)
              /\ Len(rows) = Len(sheet_rows)
              /\ Cardinality(dict_keys(fn_map)) = Len(img_files)
              /\ Cardinality(dict_keys(rows)) = Len(sheet_rows)

\* a second row with the key of the first one stopped the run
C6_Witness ==
    /\ pc = "done"
    /\ DuplicateRowKey
    /\ Len(fn_map) = Len(img_files)
    /\ Len(rows) = 1
    /\ error = "ERROR: duplicate HPAP value"

----------------------------------------------------------------------------
(* Properties of the destination-name allocation *)

\* the rows of table in every order
Orders(table) ==
    {[i \in DOMAIN table |-> table[f[i]]] :
        f \in {g \in [DOMAIN table -> DOMAIN table] :
                  \A i, j \in DOMAIN table : i # j => g[i] # g[j]}}

\* which file got which name
NamesOf(table) == {<<table[i].filepath, table[i].dest_name>> : i \in DOMAIN table}

\* the group of a row: donor, long anatomy, stain
Group(row) == <<row.donor, long_anatomy(row.anatomy), row.renamed_stain>>

\* the tokens of the destination key that select the counter in unique_dict
CounterKey(row) ==
    LET tokens == split(dest_key(row), str("_"))
    IN <<tokens[1], tokens[3], tokens[4]>>

\* C3: the names given to the rows of a batch are the same for every order
\* in which the rows arrive.
C3_OrderIndependent ==
    (alloc_pc = "idle" /\ batch_no = 1) =>
        \A table \in Orders(clean_histology) :
            NamesOf(apply_unique_num(<<>>, sort_values(table)).table) = NamesOf(named)

\* C4: in a batch, the rows of every group (donor, long anatomy, stain) get
\* the numbers 1, 2, ..., k in the order they are named, and no two rows get
\* the same destination name.
C4_GroupNumbers ==
    (alloc_pc = "idle" /\ batch_no = 1) =>
        /\ \A i \in DOMAIN named :
              named[i].unique_num =
                  1 + Cardinality({j \in 1..(i - 1) : Group(named[j]) = Group(named[i])})
        /\ \A i, j \in DOMAIN named : i # j => named[i].dest_name # named[j].dest_name

----------------------------------------------------------------------------
\* C8: a key that get_filename_key returns has only letters, digits, '_'
\* and '-', is non-empty, begins with 'HPAP', and is returned unchanged when
\* a key is extracted from it again, with and without extension removal.
C8_KeyNormalized ==
    filename_key.status = "ok" =>
        /\ \A i \in 1..Len(filename_key.key) :
              \/ filename_key.key[i] \in {"_", "-"}
              \/ filename_key.key[i] \in Lower \cup Upper \cup Digit
        /\ Len(filename_key.key) > 0
        /\ SubSeq(filename_key.key, 1, 4) = HPAP
        /\ get_filename_key(filename_key.key, TRUE) = Ok(filename_key.key)
        /\ get_filename_key(filename_key.key, FALSE) = Ok(filename_key.key)

\* a raw string with characters to drop gave a key
C8_Witness ==
    /\ filename_key.status = "ok"
    /\ filename_key.key # input_filename
    /\ Len(filename_key.key) > 4

\* the sites that have a table of modifiers, and the separators tried
C7_DictSites == {str("pancreas"), str("duodenum"), str("LN")}

C7_Seps == {str(" "), str(" - ")}

\* C7: a site followed by a modifier of its table gives the table's long
\* form, pancreas, duodenum or LN with no modifier gives the bare long form,
\* and a site followed by a modifier outside its table ends in sys.exit(1).
C7_ClassifierTotal ==
    anatomy_result.status # "none" =>
        /\ \A site \in C7_DictSites : \A sep \in C7_Seps :
              \A mod \in DOMAIN anatomy_dict[site].items :
                  value = site \o sep \o mod =>
                      anatomy_result = Label(anatomy_dict[site].items[mod])
        /\ value = str("pancreas - head") =>
              anatomy_result.status = "ok" /\ long_anatomy(anatomy_result.value) = str("Head-of-pancreas")
        /\ value = str("duod proximal") =>
              anatomy_result.status = "ok"
              /\ long_anatomy(anatomy_result.value) = str("Duodenum-Proximal-one-third")
        /\ value = str("ln mesentary") =>
              anatomy_result.status = "ok"
              /\ long_anatomy(anatomy_result.value) = str("Lymph-node-Mesentery")
        /\ value = str("pancreas") => anatomy_result = Label(str("Pancreas"))
        /\ value = str("duodenum") => anatomy_result = Label(str("Duodenum"))
        /\ value = str("LN") => anatomy_result = Label(str("Lymph node"))
        /\ \A site \in C7_DictSites : \A sep \in C7_Seps :
              value = site \o sep \o str("neck") => anatomy_result = AnatomyExit

\* the site keywords that occur in v
C9_Families(v) ==
    {kw \in {str("pancreas"), str("spleen"), str("LN"), str("duod"),
             str("thymus"), str("artery")} : Find(kw, v, 1) # 0}

\* C9: a text in which no site keyword occurs, or in which keywords of two
\* or more sites occur, always ends in sys.exit(1): no label is returned and
\* no other failure happens.
C9_AmbiguityIsFatal ==
    (anatomy_result.status # "none" /\ Cardinality(C9_Families(value)) # 1) =>
        anatomy_result = AnatomyExit

----------------------------------------------------------------------------
\* the title-case name of each site keyword
C11_SiteName ==
    (str("pancreas") :> str("Pancreas")) @@
    (str("duodenum") :> str("Duodenum")) @@
    (str("LN") :> str("Lymph node")) @@
    (str("spleen") :> str("Spleen")) @@
    (str("thymus") :> str("Thymus")) @@
    (str("artery") :> str("Artery"))

\* C11: the short form computed from a label that get_anatomy returned is
\* the title-case name of the site get_anatomy matched, and the computation
\* never ends in sys.exit(1) on such a label.
C11_ShortFormIsSite ==
    short_anatomy.status # "none" =>
        short_anatomy = Label(C11_SiteName[key1(value)])

\* the label of a lymph node of the head of the pancreas got its short form
C11_Witness ==
    /\ anatomy_result = Label(str("Lymph node - Head of pancreas"))
    /\ short_anatomy = Label(str("Lymph node"))

====
